---- MODULE Spec2Model ----
(***************************************************************************)
(* Model of the AlphaFold multimer inference pipeline:                     *)
(*   - the cross-chain aggregation component                               *)
(*     (components/aggregate_features_across_chains.py) followed by the    *)
(*     feature download of the prediction component                        *)
(*     (components/model_predict.py): specification Spec;                  *)
(*   - the pipeline DAG                                                    *)
(*     (pipelines/alphafold_optimized_multimer_persistent_resource.py):    *)
(*     specification PipeSpec.                                             *)
(*                                                                         *)
(* Strings are sequences of tokens.  "gs://" and "/" are tokens of their   *)
(* own; every other token is a piece of a name that holds neither.         *)
(***************************************************************************)
EXTENDS Integers, Sequences, FiniteSets, TLC

VARIABLES
    \* ---- inputs of aggregate_features_across_chains
    chain_info,            \* sequences.metadata['chain_info']: the chain ids, in order
    paths_info,            \* json.loads(per_chain_features_dir)
    is_homomer_or_monomer, \* the flag, a string
    output_features_path,  \* parameter, reassigned at line 127
    \* ---- object storage
    gcs,                   \* location <<bucket, blob>> -> content
    io,                    \* storage operations and prediction calls performed, in order
    \* ---- locals of aggregate_features_across_chains
    pc,                    \* "loop", "upload", "done", "failed"
    idx,                   \* position of the for loop in chain_info
    all_chain_features,    \* dict: chain id -> record
    keys,                  \* insertion order of the dict's keys
    np_example,            \* the merged record
    pair_depth,            \* depth of the record pair_and_merge returned ("Before pad_msa", line 121)
    error,                 \* the exception that ended the step
    features,              \* the output artifact
    \* ---- predict
    ppc,                   \* "idle", "loaded", "predicted", "failed"
    model_features         \* the record predict has loaded

VARIABLES
    \* ---- the pipeline run
    skip_msa,              \* pipeline parameter, a string
    is_run_relax,          \* pipeline parameter, a string
    parallelism,           \* config.PARALLELISM
    chains_to_process,     \* filter_chains.outputs['chains_to_process']
    model_runners,         \* run_config.outputs['model_runners']
    status,                \* task -> "pending", "running", "done", "failed"
    started                \* fan-out iterations the platform has admitted

VARIABLES
    \* ---- the per-chain feature builds that precede cross-chain aggregation
    chain_builds,          \* chain id -> the record the build of that chain writes
    completed              \* the chains whose build has completed, in completion order

pipeVars == <<skip_msa, is_run_relax, parallelism, chains_to_process, model_runners,
              status, started>>

buildVars == <<chain_builds, completed>>

aggVars == <<chain_info, paths_info, is_homomer_or_monomer, output_features_path,
             gcs, io, pc, idx, all_chain_features, keys, np_example, pair_depth,
             error, features, ppc, model_features>>

-----------------------------------------------------------------------------
(* Bounds of the model *)

MaxChains == 2      \* longest chain_info
MaxParallelism == 2 \* largest parallelism limit configured
MaxRunners == 2     \* largest number of model runners
MaxFailures == 1    \* most task failures in one run
DepthSpread == 1    \* alignment depths range over PadTo - DepthSpread .. PadTo + DepthSpread

-----------------------------------------------------------------------------
(* String helpers *)

GS == "gs://"
SLASH == "/"
FEATURES_PKL == "features.pkl"
ALL_CHAIN_FEATURES_PKL == "all_chain_features.pkl"

\* s.replace('gs://', '')
replace_gs(s) == SelectSeq(s, LAMBDA t : t # GS)

FirstSlash(s) == CHOOSE k \in 1..Len(s) : s[k] = SLASH /\ \A j \in 1..(k - 1) : s[j] # SLASH

\* s.split('/')
RECURSIVE split(_)
split(s) ==
    IF \A k \in 1..Len(s) : s[k] # SLASH
    THEN <<s>>
    ELSE <<SubSeq(s, 1, FirstSlash(s) - 1)>> \o split(SubSeq(s, FirstSlash(s) + 1, Len(s)))

\* '/'.join(parts)
RECURSIVE join(_)
join(parts) ==
    IF Len(parts) = 0 THEN <<>>
    ELSE IF Len(parts) = 1 THEN parts[1]
    ELSE parts[1] \o <<SLASH>> \o join(Tail(parts))

\* os.path.join(a, b) for a relative b: one separator unless a is empty or ends with one
os_path_join(a, b) ==
    IF Len(a) = 0 THEN b
    ELSE IF a[Len(a)] \in {SLASH, GS} THEN a \o b
    ELSE a \o <<SLASH>> \o b

\* s.startswith('gs://')
startswith_gs(s) == Len(s) > 0 /\ s[1] = GS

\* f"gs://{bucket}/{blob}"
gs_url(bucket, blob) == <<GS>> \o bucket \o <<SLASH>> \o blob

-----------------------------------------------------------------------------
(* Inputs *)

PAD_MSA_SIZE == 512

ChainOrder == <<"A", "B">>
ChainIds == {ChainOrder[k] : k \in 1..Len(ChainOrder)}

Depths == (PAD_MSA_SIZE - DepthSpread)..(PAD_MSA_SIZE + DepthSpread)

ChainInfos == UNION {[1..n -> ChainIds] : n \in 1..MaxChains}

\* storage prefix the manifest gives for a chain, and the blob expected below it
ChainPrefix(c) == <<GS, "b", SLASH, "r", SLASH, c>>
ChainBlob(c) == << <<"b">>, <<"r", SLASH, c, SLASH, FEATURES_PKL>> >>

FullProteinPaths ==
    { <<GS, "b">>, <<GS, "b", SLASH>>, <<GS, "b", SLASH, "o">>,
      <<GS, "b", SLASH, "o", SLASH>>, <<"b", SLASH, "o">> }

Manifests ==
    { [chains |-> [c \in S |-> ChainPrefix(c)], has_full_protein |-> h, full_protein |-> p] :
        S \in SUBSET ChainIds, h \in {TRUE}, p \in FullProteinPaths }
    \cup
    { [chains |-> [c \in S |-> ChainPrefix(c)], has_full_protein |-> FALSE, full_protein |-> <<>>] :
        S \in SUBSET ChainIds }

\* a per-chain feature record as the per-chain aggregation stored it
MonomerFeatures(c, d) == [chains |-> <<c>>, depth |-> d, ops |-> <<>>]

\* the chain a per-chain blob belongs to
ChainOfBlob(loc) == loc[2][3]

Storages ==
    UNION { { [loc \in {ChainBlob(c) : c \in S} |->
                  MonomerFeatures(ChainOfBlob(loc), d[ChainOfBlob(loc)])] : d \in [S -> Depths] } :
            S \in SUBSET ChainIds }

\* the JSON text of the manifest, as create_run_id hands it to the steps
RECURSIVE json_chains(_, _)
json_chains(chains, k) ==
    IF k > Len(ChainOrder) THEN <<>>
    ELSE (IF ChainOrder[k] \in DOMAIN chains
          THEN <<ChainOrder[k], ":">> \o chains[ChainOrder[k]] \o <<",">>
          ELSE <<>>) \o json_chains(chains, k + 1)

json_dumps(p) ==
    <<"{", "chains", ":", "{">> \o json_chains(p.chains, 1) \o <<"}">>
    \o (IF p.has_full_protein THEN <<",", "full_protein", ":">> \o p.full_protein ELSE <<>>)
    \o <<"}">>

-----------------------------------------------------------------------------
(* External routines of the AlphaFold library, by their effect on a record *)

NoRecord == [chains |-> <<>>, depth |-> 0, ops |-> <<>>]

\* pipeline_multimer.convert_monomer_features(monomer_features, chain_id)
convert_monomer_features(monomer_features, chain_id) ==
    [chains |-> <<chain_id>>,
     depth |-> monomer_features.depth,
     ops |-> Append(monomer_features.ops, "convert_monomer_features")]

\* pipeline_multimer.add_assembly_features(all_chain_features): one record per chain
add_assembly_features(all) ==
    [c \in DOMAIN all |-> [all[c] EXCEPT !.ops = Append(@, "add_assembly_features")]]

\* feature_processing.pair_and_merge(all_chain_features); merged_depth is the
\* alignment depth of the record the library returns
pair_and_merge(all, order, merged_depth) ==
    [chains |-> order,
     depth |-> merged_depth,
     ops |-> <<"convert_monomer_features", "add_assembly_features", "pair_and_merge">>]

\* pipeline_multimer.pad_msa(np_example, min_num_seq): zero-pads the alignment
\* to min_num_seq rows when it has fewer, and leaves a deeper alignment alone
pad_msa(example, min_num_seq) ==
    [example EXCEPT !.depth = IF @ < min_num_seq THEN min_num_seq ELSE @,
                    !.ops = Append(@, "pad_msa")]

-----------------------------------------------------------------------------
(* aggregate_features_across_chains *)

NoError == [type |-> "none", chain |-> "", path |-> <<>>]

ARTIFACT_URI == <<GS, "root", SLASH, "features">>
NoMetadata == [is_homomer_or_monomer |-> "", num_chains |-> 0]

\* the bucket taken without stripping the scheme
chain_location_KeepsScheme(features_path) ==
    << split(features_path)[1],
       join(Tail(split(features_path))) \o <<SLASH, FEATURES_PKL>> >>

\* lines 64-65: bucket and blob of a chain's feature file
chain_location(features_path) ==
    << split(replace_gs(features_path))[1],
       join(Tail(split(replace_gs(features_path)))) \o <<SLASH, FEATURES_PKL>> >>

\* lines 130-132: bucket and blob of the merged record
dest_location(path) ==
    << split(replace_gs(path))[1],
       os_path_join(join(Tail(split(replace_gs(path)))), <<ALL_CHAIN_FEATURES_PKL>>) >>

\* the pair-and-merge branch without the call of line 122
merge_features_SkipsPad(flag, all, order, merged_depth) ==
    IF flag = "true" /\ Cardinality(DOMAIN all) = 1
    THEN all[order[1]]
    ELSE pair_and_merge(all, order, merged_depth)

\* the branch taken on the chain count alone
merge_features_IgnoresFlag(flag, all, order, merged_depth) ==
    IF Cardinality(DOMAIN all) = 1
    THEN all[order[1]]
    ELSE pad_msa(pair_and_merge(all, order, merged_depth), PAD_MSA_SIZE)

\* lines 102-123: the merged record
merge_features(flag, all, order, merged_depth) ==
    IF flag = "true" /\ Cardinality(DOMAIN all) = 1
    THEN all[order[1]]
    ELSE pad_msa(pair_and_merge(all, order, merged_depth), PAD_MSA_SIZE)

\* lines 126-127: the output prefix
effective_output_path(info, default) ==
    IF info.has_full_protein THEN info.full_protein ELSE default

\* the lookup of line 61 without the check of line 58
no_path_error_KeyError(chain_id) == [type |-> "KeyError", chain |-> "", path |-> <<>>]

\* line 59
no_path_error(chain_id) == [type |-> "ValueError", chain |-> chain_id, path |-> <<>>]

\* line 71
not_found_error(chain_id, loc) ==
    [type |-> "FileNotFoundError", chain |-> chain_id, path |-> gs_url(loc[1], loc[2])]

\* line 142
upload_error(path) == [type |-> "RuntimeError", chain |-> "", path |-> path]

\* the count taken one too low
output_metadata_OffByOne(flag, all) ==
    [is_homomer_or_monomer |-> flag, num_chains |-> Cardinality(DOMAIN all) - 1]

\* lines 145-148
output_metadata(flag, all) ==
    [is_homomer_or_monomer |-> flag, num_chains |-> Cardinality(DOMAIN all)]

\* the artifact assigned before the upload is attempted
features_after_upload_AssignsFirst(ok, old, path, flag, all) ==
    [uri |-> os_path_join(path, <<ALL_CHAIN_FEATURES_PKL>>),
     metadata |-> [is_homomer_or_monomer |-> flag, num_chains |-> Cardinality(DOMAIN all)],
     assigned |-> TRUE]

\* lines 136-148: the artifact is assigned once the upload has returned
features_after_upload(ok, old, path, flag, all) ==
    IF ok
    THEN [uri |-> os_path_join(path, <<ALL_CHAIN_FEATURES_PKL>>),
          metadata |-> output_metadata(flag, all),
          assigned |-> TRUE]
    ELSE old

AggInit ==
    /\ chain_info \in ChainInfos
    /\ paths_info \in Manifests
    /\ is_homomer_or_monomer \in {"true", "false"}
    /\ output_features_path = json_dumps(paths_info)    \* pipeline line 308
    /\ gcs \in Storages
    /\ io = <<>>
    /\ pc = "loop"
    /\ idx = 1
    /\ all_chain_features = <<>>
    /\ keys = <<>>
    /\ np_example = NoRecord
    /\ pair_depth = 0
    /\ error = NoError
    /\ features = [uri |-> ARTIFACT_URI, metadata |-> NoMetadata, assigned |-> FALSE]
    /\ ppc = "idle"
    /\ model_features = NoRecord

inputsUnchanged ==
    UNCHANGED <<chain_info, paths_info, is_homomer_or_monomer, pipeVars, buildVars>>

\* one iteration of the loop over chain_info, lines 54-93
LoadChain ==
    /\ pc = "loop"
    /\ idx <= Len(chain_info)
    /\ LET chain_id == chain_info[idx] IN
       IF chain_id \notin DOMAIN paths_info.chains
       THEN /\ error' = no_path_error(chain_id)
            /\ pc' = "failed"
            /\ UNCHANGED <<io, idx, all_chain_features, keys>>
       ELSE LET loc == chain_location(paths_info.chains[chain_id]) IN
            IF loc \notin DOMAIN gcs
            THEN /\ io' = Append(io, [op |-> "exists", loc |-> loc, ok |-> FALSE])
                 /\ error' = not_found_error(chain_id, loc)
                 /\ pc' = "failed"
                 /\ UNCHANGED <<idx, all_chain_features, keys>>
            ELSE /\ io' = io \o << [op |-> "exists", loc |-> loc, ok |-> TRUE],
                                   [op |-> "download", loc |-> loc, ok |-> TRUE] >>
                 /\ all_chain_features' =
                        (chain_id :> convert_monomer_features(gcs[loc], chain_id))
                        @@ all_chain_features
                 /\ keys' = IF chain_id \in DOMAIN all_chain_features
                            THEN keys ELSE Append(keys, chain_id)
                 /\ idx' = idx + 1
                 /\ UNCHANGED <<pc, error>>
    /\ inputsUnchanged
    /\ UNCHANGED <<output_features_path, gcs, np_example, pair_depth, features,
                   ppc, model_features>>

\* lines 95-127: assembly features, the single-chain / pair-and-merge branch,
\* and the choice of the output prefix
MergeChains ==
    /\ pc = "loop"
    /\ idx > Len(chain_info)
    /\ \E merged_depth \in Depths :
         /\ all_chain_features' = add_assembly_features(all_chain_features)
         /\ np_example' = merge_features(is_homomer_or_monomer,
                                         all_chain_features', keys, merged_depth)
         /\ pair_depth' = IF "pair_and_merge" \in {np_example'.ops[k] : k \in 1..Len(np_example'.ops)}
                          THEN merged_depth ELSE 0
    /\ output_features_path' = effective_output_path(paths_info, output_features_path)
    /\ pc' = "upload"
    /\ inputsUnchanged
    /\ UNCHANGED <<gcs, io, idx, keys, error, features, ppc, model_features>>


\* the upload attempted again after it failed
after_upload_Retries(ok) == IF ok THEN "done" ELSE "upload"

\* lines 136-142: the step goes on after the upload, or ends in the error raised
after_upload(ok) == IF ok THEN "done" ELSE "failed"

\* lines 129-148: the upload, and the output artifact once it succeeded
Upload ==
    /\ pc = "upload"
    /\ LET dest == dest_location(output_features_path) IN
       \E ok \in BOOLEAN :
         /\ io' = Append(io, [op |-> "upload", loc |-> dest, ok |-> ok])
         /\ pc' = after_upload(ok)
         /\ IF ok
            THEN /\ gcs' = (dest :> np_example) @@ gcs
                 /\ UNCHANGED error
            ELSE /\ error' = upload_error(output_features_path)
                 /\ UNCHANGED gcs
         /\ features' = features_after_upload(ok, features, output_features_path,
                                              is_homomer_or_monomer, all_chain_features)
    /\ inputsUnchanged
    /\ UNCHANGED <<output_features_path, idx, all_chain_features, keys, np_example,
                   pair_depth, ppc, model_features>>

-----------------------------------------------------------------------------
(* predict: the download of the model features, model_predict.py lines 58-72 *)

\* the bucket taken from the URI with its scheme
features_location_KeepsScheme(uri) ==
    << split(uri)[1], join(Tail(split(uri))) >>

\* lines 61-62
features_location(uri) ==
    << split(replace_gs(uri))[1], join(Tail(split(replace_gs(uri)))) >>

Predict ==
    /\ pc = "done"
    /\ ppc = "idle"
    /\ IF startswith_gs(features.uri)
       THEN LET loc == features_location(features.uri) IN
            /\ io' = Append(io, [op |-> "download", loc |-> loc, ok |-> loc \in DOMAIN gcs])
            /\ IF loc \in DOMAIN gcs
               THEN /\ model_features' = gcs[loc]
                    /\ ppc' = "loaded"
               ELSE /\ ppc' = "failed"
                    /\ UNCHANGED model_features
       ELSE \* model_features.path: nothing was written below a local path
            /\ ppc' = "failed"
            /\ UNCHANGED <<io, model_features>>
    /\ inputsUnchanged
    /\ UNCHANGED <<output_features_path, gcs, pc, idx, all_chain_features, keys,
                   np_example, pair_depth, error, features>>

\* lines 74-85: the one call of alphafold_predict on the loaded features
AlphafoldPredict ==
    /\ ppc = "loaded"
    /\ \E ok \in BOOLEAN :
         /\ io' = Append(io, [op |-> "alphafold_predict",
                              loc |-> features_location(features.uri), ok |-> ok])
         /\ ppc' = IF ok THEN "predicted" ELSE "failed"
    /\ inputsUnchanged
    /\ UNCHANGED <<output_features_path, gcs, pc, idx, all_chain_features, keys,
                   np_example, pair_depth, error, features, model_features>>

-----------------------------------------------------------------------------
(* The pipeline DAG, alphafold_multimer_pipeline *)

TOP == "-"
RunnerOrder == <<"m1", "m2", "m3">>
Runners == {RunnerOrder[k] : k \in 1..Len(RunnerOrder)}
RunnerSets == {{RunnerOrder[k] : k \in 1..n} : n \in 1..MaxRunners}

TopNames == {"run_config", "model_parameters", "reference_databases",
             "per_chain_features_dir", "filter_chains",
             "aggregate_features_across_chains"}
FullSearchNames == {"uniref_msa", "mgnify_msa", "bfd_msa", "search_pdb", "aggregate_features"}
SkipSearchNames == {"no_template", "no_msa_art", "aggregate_features_no_msa"}
ChainNames == {"raw_artifact", "sequence_artifact"} \cup FullSearchNames \cup SkipSearchNames
RunnerNames == {"model_predict", "relax_protein"}
\* dsl.importer nodes: the platform registers an artifact, no container runs
ImporterNames == {"model_parameters", "reference_databases", "raw_artifact"}

Tasks == (TopNames \X {TOP}) \cup (ChainNames \X ChainIds) \cup (RunnerNames \X Runners)

T(name, item) == <<name, item>>

\* the tasks whose outputs a task consumes, or that it is placed after
Upstream(t) ==
    LET name == t[1]
        item == t[2]
    IN  CASE name = "filter_chains" ->
                {T("run_config", TOP), T("per_chain_features_dir", TOP)}
          [] name = "sequence_artifact" -> {T("raw_artifact", item)}
          [] name \in {"uniref_msa", "mgnify_msa", "bfd_msa"} ->
                {T("reference_databases", TOP), T("sequence_artifact", item)}
          [] name = "search_pdb" ->
                {T("reference_databases", TOP), T("sequence_artifact", item),
                 T("uniref_msa", item)}
          [] name = "aggregate_features" ->
                {T("sequence_artifact", item), T("reference_databases", TOP),
                 T("uniref_msa", item), T("mgnify_msa", item), T("bfd_msa", item),
                 T("search_pdb", item), T("per_chain_features_dir", TOP),
                 T("run_config", TOP)}
          [] name = "aggregate_features_no_msa" ->
                {T("sequence_artifact", item), T("reference_databases", TOP),
                 T("no_msa_art", item), T("no_template", item),
                 T("per_chain_features_dir", TOP), T("run_config", TOP)}
          [] name = "aggregate_features_across_chains" ->
                {T("per_chain_features_dir", TOP), T("run_config", TOP)}
          [] name = "model_predict" ->
                {T("aggregate_features_across_chains", TOP), T("model_parameters", TOP),
                 T("run_config", TOP)}
          [] name = "relax_protein" -> {T("model_predict", item)}
          [] OTHER -> {}

\* the second guard written as the complement of the first
condition_holds_Else(name, skip, relax) ==
    /\ name \in FullSearchNames => skip = "false"
    /\ name \in SkipSearchNames => skip # "false"
    /\ name = "relax_protein" => relax = "relax"

\* dsl.Condition: the guard of the group a task sits in
condition_holds(name, skip, relax) ==
    /\ name \in FullSearchNames => skip = "false"
    /\ name \in SkipSearchNames => skip = "true"
    /\ name = "relax_protein" => relax = "relax"

\* the two dsl.ParallelFor regions
Loops == {"chains", "runners"}
LoopOf(t) == IF t[1] \in ChainNames THEN "chains"
             ELSE IF t[1] \in RunnerNames THEN "runners" ELSE TOP
Items(loop) == IF loop = "chains" THEN chains_to_process ELSE model_runners
IterTasks(loop, item) ==
    {T(n, item) : n \in (IF loop = "chains" THEN ChainNames ELSE RunnerNames)}

\* the producer of a loop's items and the outer tasks its iterations consume
LoopUpstream(loop) ==
    IF loop = "chains"
    THEN {T("filter_chains", TOP), T("reference_databases", TOP),
          T("per_chain_features_dir", TOP), T("run_config", TOP)}
    ELSE {T("run_config", TOP), T("aggregate_features_across_chains", TOP),
          T("model_parameters", TOP)}

Done(t) == status[t] = "done"

Startable(t) ==
    /\ status[t] = "pending"
    /\ condition_holds(t[1], skip_msa, is_run_relax)
    /\ LoopOf(t) # TOP => <<LoopOf(t), t[2]>> \in started
    /\ \A u \in Upstream(t) : Done(u)

\* an admitted iteration has ended when none of its tasks runs or can start
Ended(loop, item) ==
    /\ <<loop, item>> \in started
    /\ \A t \in IterTasks(loop, item) : status[t] # "running" /\ ~Startable(t)

Active(loop) == {i \in Items(loop) : <<loop, i>> \in started /\ ~Ended(loop, i)}

\* the whole fan-out region has completed
LoopDone(loop) ==
    /\ \A u \in LoopUpstream(loop) : Done(u)
    /\ \A i \in Items(loop) :
         Ended(loop, i) /\ \A t \in IterTasks(loop, i) : status[t] # "failed"

\* the cross-chain step without .after(*chain_feature_ops)
after_chain_feature_ops_Dropped == TRUE

\* .after(*chain_feature_ops), line 309
after_chain_feature_ops == LoopDone("chains")

PipeIdle ==
    /\ skip_msa = "false"
    /\ is_run_relax = "relax"
    /\ parallelism = 1
    /\ chains_to_process = {}
    /\ model_runners = {}
    /\ status = [t \in Tasks |-> "pending"]
    /\ started = {}

PipeInit ==
    /\ skip_msa \in {"false", "true", "True"}
    /\ is_run_relax \in {"relax", "no_relax"}
    /\ parallelism \in 1..MaxParallelism
    /\ chains_to_process \in SUBSET ChainIds
    /\ model_runners \in RunnerSets
    /\ status = [t \in Tasks |-> "pending"]
    /\ started = {}

paramsUnchanged ==
    UNCHANGED <<skip_msa, is_run_relax, parallelism, chains_to_process, model_runners,
                aggVars, buildVars>>

\* a fan-out region declared without a parallelism argument
slot_free_Unlimited(loop) == TRUE

\* dsl.ParallelFor(..., parallelism=config.PARALLELISM), lines 201-204 and 312-315:
\* fewer than `parallelism` iterations of the region are in progress
slot_free(loop) == Cardinality(Active(loop)) < parallelism

\* the platform admits one more iteration of a fan-out region
StartIteration(loop, item) ==
    /\ item \in Items(loop)
    /\ <<loop, item>> \notin started
    /\ \A u \in LoopUpstream(loop) : Done(u)
    /\ slot_free(loop)
    /\ started' = started \cup {<<loop, item>>}
    /\ UNCHANGED status
    /\ paramsUnchanged

\* the platform starts a task whose guard holds and whose upstream tasks are
\* done; an importer node registers its artifact in the same step
StartTask(t) ==
    /\ Startable(t)
    /\ t[1] = "aggregate_features_across_chains" => after_chain_feature_ops
    /\ status' = [status EXCEPT ![t] = IF t[1] \in ImporterNames THEN "done" ELSE "running"]
    /\ UNCHANGED started
    /\ paramsUnchanged

\* a running task completes
FinishTask(t) ==
    /\ status[t] = "running"
    /\ status' = [status EXCEPT ![t] = "done"]
    /\ UNCHANGED started
    /\ paramsUnchanged

\* a running component fails
FailTask(t) ==
    /\ status[t] = "running"
    /\ t[1] \notin ImporterNames
    /\ Cardinality({u \in Tasks : status[u] = "failed"}) < MaxFailures
    /\ status' = [status EXCEPT ![t] = "failed"]
    /\ UNCHANGED started
    /\ paramsUnchanged

PipeNext ==
    \/ \E loop \in Loops, item \in ChainIds \cup Runners : StartIteration(loop, item)
    \/ \E t \in Tasks : StartTask(t)
    \/ \E t \in Tasks : FinishTask(t)
    \/ \E t \in Tasks : FailTask(t)

-----------------------------------------------------------------------------
(* Specifications *)

AggIdle ==
    /\ chain_info = <<>>
    /\ paths_info = [chains |-> <<>>, has_full_protein |-> FALSE, full_protein |-> <<>>]
    /\ is_homomer_or_monomer = "false"
    /\ output_features_path = <<>>
    /\ gcs = <<>>
    /\ io = <<>>
    /\ pc = "idle"
    /\ idx = 1
    /\ all_chain_features = <<>>
    /\ keys = <<>>
    /\ np_example = NoRecord
    /\ pair_depth = 0
    /\ error = NoError
    /\ features = [uri |-> ARTIFACT_URI, metadata |-> NoMetadata, assigned |-> FALSE]
    /\ ppc = "idle"
    /\ model_features = NoRecord

BuildIdle ==
    /\ chain_builds = <<>>
    /\ completed = <<>>

vars == <<aggVars, pipeVars, buildVars>>

\* one run of aggregate_features_across_chains, then the download of predict
Init == AggInit /\ PipeIdle /\ BuildIdle
Next == LoadChain \/ MergeChains \/ Upload \/ Predict \/ AlphafoldPredict
Spec == Init /\ [][Next]_vars

\* one run of the pipeline
PipeRunInit == PipeInit /\ AggIdle /\ BuildIdle
PipeSpec == PipeRunInit /\ [][PipeNext]_vars

-----------------------------------------------------------------------------
(* The per-chain feature builds of one run, completing in any order, and the
   cross-chain aggregation placed after them *)

ChainsOf(s) == {s[k] : k \in 1..Len(s)}

\* the cross-chain step started without waiting for the per-chain builds
builds_complete_NotAwaited == TRUE

\* .after(*chain_feature_ops), pipeline line 309: every per-chain build is over
builds_complete == DOMAIN chain_builds \subseteq ChainsOf(completed)

\* the chains of chain_info split into those whose features are already in
\* storage and those this run builds; a chain may also have no record at all
FanInInit ==
    /\ chain_info \in ChainInfos
    /\ paths_info \in Manifests
    /\ is_homomer_or_monomer \in {"true", "false"}
    /\ output_features_path = json_dumps(paths_info)    \* pipeline line 308
    /\ \E final \in Storages :
         \E B \in SUBSET {c \in ChainsOf(chain_info) : ChainBlob(c) \in DOMAIN final} :
            /\ chain_builds = [c \in B |-> final[ChainBlob(c)]]
            /\ gcs = [loc \in {l \in DOMAIN final : ChainOfBlob(l) \notin B} |-> final[loc]]
    /\ completed = <<>>
    /\ io = <<>>
    /\ pc = "waiting"
    /\ idx = 1
    /\ all_chain_features = <<>>
    /\ keys = <<>>
    /\ np_example = NoRecord
    /\ pair_depth = 0
    /\ error = NoError
    /\ features = [uri |-> ARTIFACT_URI, metadata |-> NoMetadata, assigned |-> FALSE]
    /\ ppc = "idle"
    /\ model_features = NoRecord
    /\ PipeIdle

\* the per-chain build of chain c completes: its record is in storage
BuildCompletes(c) ==
    /\ pc = "waiting"
    /\ c \in DOMAIN chain_builds
    /\ c \notin ChainsOf(completed)
    /\ gcs' = (ChainBlob(c) :> chain_builds[c]) @@ gcs
    /\ completed' = Append(completed, c)
    /\ UNCHANGED <<chain_info, paths_info, is_homomer_or_monomer, output_features_path,
                   io, pc, idx, all_chain_features, keys, np_example, pair_depth,
                   error, features, ppc, model_features, chain_builds, pipeVars>>

\* the platform starts aggregate_features_across_chains
StartAggregation ==
    /\ pc = "waiting"
    /\ builds_complete
    /\ pc' = "loop"
    /\ inputsUnchanged
    /\ UNCHANGED <<output_features_path, gcs, io, idx, all_chain_features, keys,
                   np_example, pair_depth, error, features, ppc, model_features>>

FanInNext ==
    \/ \E c \in ChainIds : BuildCompletes(c)
    \/ StartAggregation
    \/ LoadChain
    \/ MergeChains
    \/ Upload

FanInSpec == FanInInit /\ [][FanInNext]_vars

-----------------------------------------------------------------------------
(* Properties of aggregate_features_across_chains *)

DistinctChains == {chain_info[k] : k \in 1..Len(chain_info)}
OpsOf(r) == {r.ops[k] : k \in 1..Len(r.ops)}
Uploads == {k \in 1..Len(io) : io[k].op = "upload"}
InManifest(c) == c \in DOMAIN paths_info.chains
BlobPresent(c) == ChainBlob(c) \in DOMAIN gcs
Fetchable(c) == InManifest(c) /\ BlobPresent(c)
EarlierFetchable(k) == \A j \in 1..(k - 1) : Fetchable(chain_info[j])
ArtifactUnset ==
    ~features.assigned /\ features.uri = ARTIFACT_URI /\ features.metadata = NoMetadata
NoOutput == Uploads = {} /\ ArtifactUnset
Merged == pc \in {"upload", "done"}
ExpectedPrefix ==
    IF paths_info.has_full_protein THEN paths_info.full_protein ELSE json_dumps(paths_info)
SingleChainRecord(c) ==
    [chains |-> <<c>>,
     depth |-> gcs[ChainBlob(c)].depth,
     ops |-> <<"convert_monomer_features", "add_assembly_features">>]

\* C1: with the flag set and exactly one distinct chain, the merged record, and
\* the record uploaded, is that chain's converted and assembly-annotated record,
\* on which neither pair_and_merge nor pad_msa was invoked; in every other case
\* the record went through pair_and_merge and then pad_msa.
C1_SingleChainBranch ==
    /\ Merged =>
         IF is_homomer_or_monomer = "true" /\ Cardinality(DistinctChains) = 1
         THEN np_example = SingleChainRecord(chain_info[1])
         ELSE np_example.ops = <<"convert_monomer_features", "add_assembly_features",
                                 "pair_and_merge", "pad_msa">>
    /\ \A k \in Uploads : io[k].ok => gcs[io[k].loc] = np_example

C1_Witness ==
    /\ pc = "done"
    /\ is_homomer_or_monomer = "true"
    /\ Cardinality(DistinctChains) = 1
    /\ Len(chain_info) = 2
    /\ "pair_and_merge" \notin OpsOf(np_example)

\* C2 as stated: with two or more chains and the flag unset the depth of the
\* record produced is exactly the padding constant, whatever the input depth.
C2_DepthExactly512 ==
    (Merged /\ is_homomer_or_monomer = "false" /\ Cardinality(DistinctChains) >= 2)
        => np_example.depth = PAD_MSA_SIZE

\* C2 as amended: with two or more chains and the flag unset the depth of the
\* record produced is at least the padding constant: exactly the constant when
\* the merged alignment is no deeper than it, and the merged depth otherwise.
C2_DepthAtLeast512 ==
    (Merged /\ is_homomer_or_monomer = "false" /\ Cardinality(DistinctChains) >= 2)
        => /\ np_example.depth >= PAD_MSA_SIZE
           /\ pair_depth <= PAD_MSA_SIZE => np_example.depth = PAD_MSA_SIZE
           /\ pair_depth > PAD_MSA_SIZE => np_example.depth = pair_depth

C2_Witness ==
    /\ pc = "done"
    /\ is_homomer_or_monomer = "false"
    /\ Cardinality(DistinctChains) >= 2
    /\ pair_depth < PAD_MSA_SIZE
    /\ np_example.depth = PAD_MSA_SIZE

\* C3: every record a prediction step has loaded was padded by pad_msa before,
\* on the single-chain branch as on the pair-and-merge branch.
C3_PaddedBeforePredict ==
    ppc = "loaded" => "pad_msa" \in OpsOf(model_features)

\* C4 as stated: whenever a listed chain has no manifest entry the step ends in
\* the missing-path error naming that chain and produces no output.
C4_MissingEntryNamed ==
    \A k \in 1..Len(chain_info) :
        (~InManifest(chain_info[k]) /\ pc \in {"done", "failed"})
            => /\ pc = "failed"
               /\ error = [type |-> "ValueError", chain |-> chain_info[k], path |-> <<>>]
               /\ NoOutput

\* C4 as amended: whenever a listed chain has no manifest entry the loop never
\* gets past it and no output is produced; the step ends in the missing-path
\* error naming that chain when every chain listed before it was fetched.
C4_FirstMissingEntryNamed ==
    \A k \in 1..Len(chain_info) :
        ~InManifest(chain_info[k])
            => /\ idx <= k
               /\ pc \in {"loop", "failed"}
               /\ NoOutput
               /\ (pc = "failed" /\ EarlierFetchable(k))
                    => error = [type |-> "ValueError", chain |-> chain_info[k], path |-> <<>>]

C4_Witness ==
    /\ pc = "failed"
    /\ error.type = "ValueError"
    /\ idx = 2
    /\ ~InManifest(chain_info[2])
    /\ NoOutput

\* C5 as stated: whenever the blob of a listed chain is absent the step ends in
\* the file-not-found error naming that chain and its full path; nothing is uploaded.
C5_AbsentBlobNamed ==
    \A k \in 1..Len(chain_info) :
        (InManifest(chain_info[k]) /\ ~BlobPresent(chain_info[k]) /\ pc \in {"done", "failed"})
            => /\ pc = "failed"
               /\ error = [type |-> "FileNotFoundError", chain |-> chain_info[k],
                           path |-> ChainPrefix(chain_info[k]) \o <<SLASH, FEATURES_PKL>>]
               /\ Uploads = {}

\* C5 as amended: whenever the blob of a listed chain is absent the loop never
\* gets past that chain and nothing is uploaded; the step ends in the
\* file-not-found error naming that chain and its full path when every chain
\* listed before it was fetched, however many those are.
C5_FirstAbsentBlobNamed ==
    \A k \in 1..Len(chain_info) :
        (InManifest(chain_info[k]) /\ ~BlobPresent(chain_info[k]))
            => /\ idx <= k
               /\ pc \in {"loop", "failed"}
               /\ NoOutput
               /\ (pc = "failed" /\ EarlierFetchable(k))
                    => error = [type |-> "FileNotFoundError", chain |-> chain_info[k],
                                path |-> ChainPrefix(chain_info[k]) \o <<SLASH, FEATURES_PKL>>]

C5_Witness ==
    /\ pc = "failed"
    /\ error.type = "FileNotFoundError"
    /\ idx = 2
    /\ error.chain = chain_info[2]
    /\ \E k \in 1..Len(io) : io[k].op = "download"
    /\ Uploads = {}

\* C6: a failed upload is the last storage operation of the step, which ends in
\* the wrapped error naming the destination path with the artifact's URI and
\* metadata unset; the artifact is assigned only after an upload has succeeded.
C6_UploadFailure ==
    /\ \A k \in Uploads :
         ~io[k].ok => /\ k = Len(io)
                      /\ pc = "failed"
                      /\ error = [type |-> "RuntimeError", chain |-> "", path |-> ExpectedPrefix]
                      /\ ArtifactUnset
    /\ features.assigned => \E k \in Uploads : io[k].ok
    /\ ~features.assigned => ArtifactUnset

C6_Witness ==
    /\ pc = "failed"
    /\ error.type = "RuntimeError"
    /\ \E k \in Uploads : ~io[k].ok

\* the bucket/blob string a storage path denotes
Denotes(path) == IF startswith_gs(path) THEN Tail(path) ELSE path

\* C7: the upload of the merged record goes to <output-prefix>/all_chain_features.pkl,
\* the prefix being the manifest's full_protein when it has one and the output
\* location the pipeline passed otherwise.
C7_WrittenBelowPrefix ==
    \A k \in Uploads :
        io[k].loc[1] \o <<SLASH>> \o io[k].loc[2]
            = os_path_join(Denotes(ExpectedPrefix), <<ALL_CHAIN_FEATURES_PKL>>)

\* C8 as stated: after a successful run num_chains is the number of chains
\* listed in chain_info, and is_homomer_or_monomer is the flag given.
C8_CountsListed ==
    pc = "done" => /\ features.metadata.num_chains = Len(chain_info)
                   /\ features.metadata.is_homomer_or_monomer = is_homomer_or_monomer

\* C8 as amended: after a successful run num_chains is the number of distinct
\* chain identifiers listed in chain_info, and is_homomer_or_monomer is the
\* flag given.
C8_CountsDistinct ==
    pc = "done" => /\ features.metadata.num_chains = Cardinality(DistinctChains)
                   /\ features.metadata.is_homomer_or_monomer = is_homomer_or_monomer

C8_Witness ==
    /\ pc = "done"
    /\ features.assigned
    /\ Len(chain_info) > Cardinality(DistinctChains)
    /\ features.metadata.num_chains = 1

-----------------------------------------------------------------------------
(* Properties of the pipeline DAG *)

Started(name, item) == status[T(name, item)] # "pending"
Completed(name, item) == status[T(name, item)] = "done"
FullPathRuns(c) == \E n \in FullSearchNames : Started(n, c)
SkipPathRuns(c) == \E n \in SkipSearchNames : Started(n, c)
IterationSucceeded(c) ==
    /\ Ended("chains", c)
    /\ \A t \in IterTasks("chains", c) : status[t] # "failed"
RecordsBuilt(c) ==
    {n \in {"aggregate_features", "aggregate_features_no_msa"} : Completed(n, c)}

\* C9 as stated: for every processed chain and every value of skip_msa the two
\* paths never both run, and an iteration that completes has run one of them
\* and built exactly one per-chain feature record.
C9_ExactlyOnePath ==
    \A c \in chains_to_process :
        /\ ~(FullPathRuns(c) /\ SkipPathRuns(c))
        /\ IterationSucceeded(c) =>
             /\ FullPathRuns(c) \/ SkipPathRuns(c)
             /\ Cardinality(RecordsBuilt(c)) = 1

\* C9 as amended: the two paths never both run; the full-search path runs only
\* when skip_msa is 'false' and the skip-search path only when it is 'true', and
\* then an iteration that completes has run the whole path and built exactly one
\* per-chain feature record; for any other value of skip_msa neither path runs
\* and no record is built.
C9_OnePathForTrueOrFalse ==
    \A c \in ChainIds :
        /\ ~(FullPathRuns(c) /\ SkipPathRuns(c))
        /\ FullPathRuns(c) => skip_msa = "false" /\ c \in chains_to_process
        /\ SkipPathRuns(c) => skip_msa = "true" /\ c \in chains_to_process
        /\ IterationSucceeded(c) =>
             /\ skip_msa = "false" =>
                  /\ RecordsBuilt(c) = {"aggregate_features"}
                  /\ \A n \in FullSearchNames : Completed(n, c)
             /\ skip_msa = "true" =>
                  /\ RecordsBuilt(c) = {"aggregate_features_no_msa"}
                  /\ \A n \in SkipSearchNames : Completed(n, c)
             /\ skip_msa \notin {"false", "true"} => RecordsBuilt(c) = {}

C9_Witness ==
    \E c \in chains_to_process :
        /\ IterationSucceeded(c)
        /\ skip_msa = "true"
        /\ Completed("aggregate_features_no_msa", c)
        /\ ~FullPathRuns(c)

\* C10: no step has started unless every step whose output it consumes has
\* completed: hmmsearch after the chain's Uniref search, per-chain aggregation
\* after all of the chain's searches, cross-chain aggregation after the per-chain
\* feature build of every processed chain, every prediction after cross-chain
\* aggregation, every relaxation after its own prediction.
C10_DataFlowsForward ==
    /\ Started("filter_chains", TOP) =>
         Completed("run_config", TOP) /\ Completed("per_chain_features_dir", TOP)
    /\ \A c \in ChainIds :
         /\ Started("raw_artifact", c) => Completed("filter_chains", TOP)
         /\ Started("sequence_artifact", c) => Completed("raw_artifact", c)
         /\ \A n \in {"uniref_msa", "mgnify_msa", "bfd_msa", "search_pdb"} :
              Started(n, c) => /\ Completed("sequence_artifact", c)
                               /\ Completed("reference_databases", TOP)
         /\ Started("search_pdb", c) => Completed("uniref_msa", c)
         /\ Started("aggregate_features", c) =>
              /\ \A n \in {"sequence_artifact", "uniref_msa", "mgnify_msa",
                           "bfd_msa", "search_pdb"} : Completed(n, c)
              /\ \A n \in {"reference_databases", "per_chain_features_dir",
                           "run_config"} : Completed(n, TOP)
         /\ Started("aggregate_features_no_msa", c) =>
              /\ \A n \in {"sequence_artifact", "no_msa_art", "no_template"} :
                   Completed(n, c)
              /\ \A n \in {"reference_databases", "per_chain_features_dir",
                           "run_config"} : Completed(n, TOP)
    /\ Started("aggregate_features_across_chains", TOP) =>
         /\ Completed("per_chain_features_dir", TOP) /\ Completed("run_config", TOP)
         /\ \A c \in chains_to_process :
              /\ skip_msa = "false" => Completed("aggregate_features", c)
              /\ skip_msa = "true" => Completed("aggregate_features_no_msa", c)
              /\ \A n \in ChainNames : status[T(n, c)] # "running"
    /\ \A m \in Runners :
         /\ Started("model_predict", m) =>
              /\ Completed("aggregate_features_across_chains", TOP)
              /\ Completed("model_parameters", TOP)
              /\ Completed("run_config", TOP)
         /\ Started("relax_protein", m) => Completed("model_predict", m)

C10_Witness ==
    /\ skip_msa = "false"
    /\ chains_to_process = ChainIds
    /\ \E m \in model_runners : Started("relax_protein", m)

(* C11: in each of the two fan-out regions (per chain, per model runner), at
   no time are more than `parallelism` iterations in progress, and so never
   more than `parallelism` iterations with a running task, whatever the number
   of items the region was given. *)
Executing(loop) ==
    {i \in Items(loop) : \E t \in IterTasks(loop, i) : status[t] = "running"}

C11_ParallelismRespected ==
    \A loop \in Loops :
        /\ Cardinality(Executing(loop)) <= parallelism
        /\ Cardinality(Active(loop)) <= parallelism
        /\ Executing(loop) \subseteq Active(loop)

\* limit 1 with two chains and two model runners: the chain region has run,
\* one runner iteration is over and the other one is executing
C11_Witness ==
    /\ parallelism = 1
    /\ chains_to_process = ChainIds
    /\ \A c \in ChainIds : Ended("chains", c)
    /\ Cardinality(model_runners) = 2
    /\ \E m \in model_runners :
         /\ Ended("runners", m)
         /\ Executing("runners") = model_runners \ {m}

-----------------------------------------------------------------------------
(* Properties of the fan-in: per-chain builds, then cross-chain aggregation *)

RECURSIVE Dedup(_)
Dedup(s) ==
    IF s = <<>> THEN <<>>
    ELSE LET front == SubSeq(s, 1, Len(s) - 1)
             last == s[Len(s)]
         IN  IF last \in ChainsOf(front) THEN Dedup(front) ELSE Append(Dedup(front), last)

OpSeq(kind) == SelectSeq(io, LAMBDA r : r.op = kind)
\* the record of chain c once the fan-out is over, whatever the completion order
Provided(c) == c \in DOMAIN chain_builds \/ BlobPresent(c)
WrittenRecord(c) == IF c \in DOMAIN chain_builds THEN chain_builds[c] ELSE gcs[ChainBlob(c)]
Usable(c) == InManifest(c) /\ Provided(c)

(* C12: the outcome of cross-chain aggregation is a function of chain_info,
   the manifest, the flag and the records the per-chain builds write, and not
   of the order in which the builds complete: the chains are checked and
   downloaded in the order of chain_info; the step fails in the chain loop
   exactly at the first listed chain that has no manifest entry or no record,
   with that chain's error; otherwise the dict holds each distinct chain's
   record keyed in first-occurrence order of chain_info, the merged record is
   the one these determine (with the depth pair_and_merge returned), and the
   record uploaded, its location, the artifact URI and the metadata follow
   from them. *)
C12_CompletionOrderIrrelevant ==
    pc # "waiting" =>
      /\ \A k \in 1..Len(OpSeq("exists")) :
            OpSeq("exists")[k].loc = ChainBlob(chain_info[k])
      /\ \A k \in 1..Len(OpSeq("download")) :
            OpSeq("download")[k].loc = ChainBlob(chain_info[k])
      /\ Len(OpSeq("download")) = idx - 1
      /\ Len(OpSeq("exists")) \in {idx - 1, idx}
      /\ (pc = "failed" /\ error.type # "RuntimeError") =>
            /\ idx <= Len(chain_info)
            /\ \A j \in 1..(idx - 1) : Usable(chain_info[j])
            /\ ~Usable(chain_info[idx])
            /\ error = IF InManifest(chain_info[idx])
                       THEN not_found_error(chain_info[idx], ChainBlob(chain_info[idx]))
                       ELSE no_path_error(chain_info[idx])
      /\ (Merged \/ (pc = "failed" /\ error.type = "RuntimeError")) =>
            /\ \A k \in 1..Len(chain_info) : Usable(chain_info[k])
            /\ keys = Dedup(chain_info)
            /\ DOMAIN all_chain_features = DistinctChains
            /\ \A c \in DistinctChains :
                  all_chain_features[c] =
                      [chains |-> <<c>>,
                       depth |-> WrittenRecord(c).depth,
                       ops |-> <<"convert_monomer_features", "add_assembly_features">>]
            /\ np_example =
                  IF is_homomer_or_monomer = "true" /\ Cardinality(DistinctChains) = 1
                  THEN all_chain_features[chain_info[1]]
                  ELSE [chains |-> Dedup(chain_info),
                        depth |-> IF pair_depth < PAD_MSA_SIZE THEN PAD_MSA_SIZE
                                  ELSE pair_depth,
                        ops |-> <<"convert_monomer_features", "add_assembly_features",
                                  "pair_and_merge", "pad_msa">>]
            /\ \A k \in Uploads : io[k].loc = dest_location(ExpectedPrefix)
      /\ pc = "done" =>
            /\ gcs[dest_location(ExpectedPrefix)] = np_example
            /\ features.uri = os_path_join(ExpectedPrefix, <<ALL_CHAIN_FEATURES_PKL>>)
            /\ features.metadata = [is_homomer_or_monomer |-> is_homomer_or_monomer,
                                    num_chains |-> Cardinality(DistinctChains)]

\* both chains built in this run, completing in the reverse of chain_info order
C12_Witness ==
    /\ pc = "done"
    /\ chain_info = <<"A", "B">>
    /\ completed = <<"B", "A">>
    /\ np_example.chains = <<"A", "B">>

-----------------------------------------------------------------------------
(* Properties of the operation log *)

NoRepeat(ops) == \A i, j \in 1..Len(ops) : ops[i] = ops[j] => i = j
\* the operations of the chain loop: a check and a download per completed
\* iteration, and the check of the iteration that failed
LoopOps == 2 * (idx - 1) + (IF pc = "failed" /\ error.type = "FileNotFoundError" THEN 1 ELSE 0)
ListedLocation(k) == chain_location(paths_info.chains[chain_info[k]])

(* C13: no step retries.  Within one execution of the aggregation step every
   loop iteration performs at most one existence check and one download, of
   the blob of the chain listed at that position, and the step performs at
   most one upload; predict performs at most one download and calls
   alphafold_predict at most once; each external routine is applied to a
   record at most once.  An operation that failed is the last one in the log:
   the step that performed it has ended in failure and nothing is attempted
   after it. *)
C13_NoRetry ==
    /\ \A k \in 1..Len(io) :
          ~io[k].ok => /\ k = Len(io)
                       /\ pc = "failed" \/ ppc = "failed"
    /\ Len(io) >= LoopOps
    /\ \A j \in 1..(idx - 1) :
          /\ io[2 * j - 1] = [op |-> "exists", loc |-> ListedLocation(j), ok |-> TRUE]
          /\ io[2 * j] = [op |-> "download", loc |-> ListedLocation(j), ok |-> TRUE]
    /\ LoopOps = 2 * idx - 1 =>
          io[LoopOps] = [op |-> "exists", loc |-> ListedLocation(idx), ok |-> FALSE]
    /\ LET rest == SubSeq(io, LoopOps + 1, Len(io))
           kinds == [k \in 1..Len(rest) |-> rest[k].op]
       IN  /\ kinds \in {<<>>, <<"upload">>, <<"upload", "download">>,
                         <<"upload", "download", "alphafold_predict">>}
           /\ Len(rest) >= 1 <=> pc \in {"done", "failed"} /\ error.type \in {"none", "RuntimeError"}
           /\ Len(rest) >= 2 => ppc # "idle"
           /\ Len(rest) = 3 => ppc \in {"predicted", "failed"}
    /\ \A c \in DOMAIN all_chain_features : NoRepeat(all_chain_features[c].ops)
    /\ NoRepeat(np_example.ops)
    /\ NoRepeat(model_features.ops)

\* a chain listed twice is fetched once per listing, and the one upload that
\* follows fails: five operations, the failed one last
C13_Witness ==
    /\ Len(chain_info) = 2
    /\ chain_info[1] = chain_info[2]
    /\ pc = "failed"
    /\ error.type = "RuntimeError"
    /\ Len(io) = 5
    /\ ~io[5].ok

-----------------------------------------------------------------------------
(* Properties of the hand-over from cross-chain aggregation to predict *)

PredictDownloads ==
    {k \in 1..Len(io) : io[k].op = "download" /\ \E u \in Uploads : u < k}

(* C14: once predict has acted on the features artifact, whatever the output
   prefix (the manifest's full_protein with or without a trailing slash, with
   or without a path below the bucket, or the default the pipeline passes),
   the bucket and blob predict derives from the artifact URI are those the
   aggregation step uploaded to; predict has downloaded exactly when the URI
   starts with gs://; and a download reads that very blob, succeeds, and
   leaves predict with the record the aggregation step wrote. *)
C14_LoadsWhatWasWritten ==
    ppc # "idle" =>
      /\ Cardinality(Uploads) = 1
      /\ \A u \in Uploads : features_location(features.uri) = io[u].loc
      /\ PredictDownloads # {} <=> startswith_gs(features.uri)
      /\ \A k \in PredictDownloads :
            /\ io[k].ok
            /\ \A u \in Uploads : io[k].loc = io[u].loc
            /\ model_features = np_example
            /\ model_features = gcs[io[k].loc]
            /\ model_features # NoRecord

\* a bucket-only prefix with a trailing slash, gs://b/: predict has loaded the
\* record from blob all_chain_features.pkl of bucket b
C14_Witness ==
    /\ ppc = "loaded"
    /\ paths_info.has_full_protein
    /\ paths_info.full_protein = <<GS, "b", SLASH>>
    /\ features.uri = <<GS, "b", SLASH, ALL_CHAIN_FEATURES_PKL>>
    /\ \E k \in PredictDownloads : io[k].loc = << <<"b">>, <<ALL_CHAIN_FEATURES_PKL>> >>
    /\ model_features = np_example

====
